---------------------------- MODULE Spec2Model ----------------------------
(* PunchPi: RFID attendance.  A model of the scan handlers of the          *)
(* repository and of the SQLite store they share:                          *)
(*   "main"  handleRFIDScan  of src/main.go          (lookup inside the tx) *)
(*   "p3"    handleRFIDScan  of src/unnamed/part_003 (lookup before the tx) *)
(*   "p4"    processCardScan of src/unnamed/part_004 (lookup before the tx) *)
(*   "api"   handleRFIDScan  of src/server/api.go    (no tx, 12 hour rule)  *)
(* Every request is served by its own goroutine (net/http) on its own      *)
(* pooled connection (database/sql); the store is one SQLite file in its   *)
(* default rollback-journal mode, transactions are BEGIN DEFERRED.         *)
EXTENDS Integers, Sequences, FiniteSets, TLC

\* ------------------------------------------------------------------ bounds
NProcs == 2        \* concurrent requests (goroutines)
MaxScans == 3      \* requests received in one behaviour
MaxFaults == 1     \* store failures (I/O error, busy timeout) in one behaviour
MaxTime == 2       \* the clock of the SQL handlers stops advancing here
MaxUsers == 2      \* users enrolled through addUserHandler

Procs == 1 .. NProcs
NULL == -1         \* SQL NULL in a DATETIME / REAL / INTEGER column

\* The badges presented to the readers: two enrolled ones and a stranger.
EnrolledCards == <<"AB12", "CD34">>
Badges == {"AB12", "CD34", "ZZ99"}

VARIABLES
  handler,      \* which binary is running: "main", "p3", "p4" or "api"
  db,           \* the committed store: [employees, time_records]
  txdb,         \* per connection: the uncommitted image of a write transaction
  lock,         \* per connection: its SQLite file lock
  pc,           \* per request: position in the handler
  loc,          \* per request: the handler's local variables
  clock,        \* the server's clock
  events,       \* history: the answers given, in order
  scans,        \* history: requests received
  faults,       \* history: store failures injected
  overlap,      \* history: some request arrived while another was in flight
  users,        \* src/server: the committed users table
  clock_in_out, \* src/server: the committed clock_in_out table
  reply,        \* main.go: the body of the last answer of handleTimeRecords
  lastScanTime, \* part_002: the scanner client's lastScanTime
  scanEntry,    \* part_002: the text of the scanner client's entry widget
  posts,        \* part_002: the sendScanToServer goroutines started, in order
  wedge,        \* part_002: what the reader has still to type of the badge tapped
  call,         \* api.go: one call of normalizeRFIDInput, its argument and results
  wall          \* part_002: the scanner client's clock

vars == <<handler, db, txdb, lock, pc, loc, clock, events, scans, faults, overlap,
          users, clock_in_out, reply, lastScanTime, scanEntry, posts, wedge, wall, call>>

\* What the server's actions leave alone: the query answer and the scanner
\* client (another process).
aside == <<reply, lastScanTime, scanEntry, posts, wedge, wall, call>>

\* No query answered yet.
NoReply ==
  [query |-> [employee_id |-> "", start_date |-> NULL, end_date |-> NULL],
   records |-> <<>>]

\* part_002 line 17: var lastScanTime time.Time, the zero time.
ZeroTime == -1

\* ------------------------------------------------------------------- store
\* CREATE TABLE employees: is_present BOOLEAN DEFAULT FALSE; the last_* columns
\* exist in part_004's schema only and are NULL unless written.
NewEmployee(uid, lci, lco) ==
  [card_uid |-> uid, is_present |-> FALSE, last_clock_in |-> lci, last_clock_out |-> lco]

\* INSERT INTO time_records (employee_id, clock_in): the other columns take
\* their defaults (NULL, is_completed FALSE).
NewTimeRecord(emp, t) ==
  [employee_id |-> emp, clock_in |-> t, clock_out |-> NULL,
   total_hours |-> NULL, is_completed |-> FALSE]

NoTx == [employees |-> <<>>, time_records |-> <<>>]

\* SELECT ... FROM employees WHERE card_uid = ?
LookupEmployeeAnyRow(d, uid) == DOMAIN d.employees
LookupEmployee(d, uid) ==
  {i \in DOMAIN d.employees : d.employees[i].card_uid = uid}

\* main.go and part_003 select the open record by is_completed = FALSE,
\* part_004 (whose schema has no is_completed column) by clock_out IS NULL.
IsOpenAlways(r) == TRUE
IsOpen(r) == IF handler = "p4" THEN r.clock_out = NULL ELSE r.is_completed = FALSE

OpenRecordsOfAnyone(d, emp) ==
  {i \in DOMAIN d.time_records : IsOpen(d.time_records[i])}
OpenRecords(d, emp) ==
  {i \in DOMAIN d.time_records :
     d.time_records[i].employee_id = emp /\ IsOpen(d.time_records[i])}

\* INSERT OR REPLACE over the last row in place of a plain INSERT.
InsertRecordOverLast(d, emp, t) ==
  [d EXCEPT !.time_records =
     IF @ = <<>> THEN <<NewTimeRecord(emp, t)>>
                 ELSE [@ EXCEPT ![Len(@)] = NewTimeRecord(emp, t)]]

\* INSERT INTO time_records (employee_id, clock_in) VALUES (?, ?)
InsertRecord(d, emp, t) ==
  [d EXCEPT !.time_records = Append(@, NewTimeRecord(emp, t))]

\* UPDATE employees SET is_present = ? WHERE id = ?
SetPresentSkipped(d, emp, b) == d
SetPresent(d, emp, b) ==
  [d EXCEPT !.employees[emp].is_present = b]

\* ... WHERE employee_id = ? in place of WHERE id = ?
CloseRecordsOfEmployee(d, r, t, hours, completed) ==
  [d EXCEPT !.time_records =
     [i \in DOMAIN @ |->
        IF @[i].employee_id = @[r].employee_id
          THEN [@[i] EXCEPT !.clock_out = t, !.total_hours = hours,
                            !.is_completed = completed]
          ELSE @[i]]]

\* UPDATE time_records SET clock_out = ?, total_hours = ?, is_completed = ? WHERE id = ?
CloseRecord(d, r, t, hours, completed) ==
  [d EXCEPT !.time_records[r].clock_out = t,
            !.time_records[r].total_hours = hours,
            !.time_records[r].is_completed = completed]

\* ------------------------------------------------------------ SQLite locks
\* A connection's view: its own uncommitted image once it holds RESERVED.
View(p) == IF lock[p] \in {"reserved", "pending"} THEN txdb[p] ELSE db

\* SHARED is refused while a writer holds PENDING (it is about to commit); a
\* connection with no lock waits in the busy handler.
CanShare(p) == \A q \in Procs \ {p} : lock[q] # "pending"
\* RESERVED is held by one connection at a time.
CanReserve(p) == \A q \in Procs \ {p} : lock[q] \notin {"reserved", "pending"}
\* EXCLUSIVE, needed to write the file at COMMIT, waits for every reader.
CanExclusive(p) == \A q \in Procs \ {p} : lock[q] = "none"

\* A read by connection p: "ok", or "wait" (the busy handler retries).
ReadOutcome(p) ==
  IF lock[p] # "none" \/ CanShare(p) THEN "ok" ELSE "wait"

\* A write by connection p.  A connection that already holds SHARED inside its
\* transaction cannot wait for RESERVED (the writer it waits for waits for its
\* SHARED lock): SQLite answers SQLITE_BUSY at once.  A connection with no lock
\* waits in the busy handler.
\* A writer that waits for RESERVED while it holds SHARED (not what SQLite does).
WriteOutcomeWaits(p) ==
  IF lock[p] \in {"reserved", "pending"} \/ CanReserve(p) THEN "ok" ELSE "wait"

WriteOutcome(p) ==
  IF lock[p] \in {"reserved", "pending"} \/ CanReserve(p) THEN "ok"
  ELSE IF lock[p] = "shared" THEN "busy"
  ELSE "wait"

\* ------------------------------------------------------------------ locals
NoLoc == [uid |-> "", id |-> 0, present |-> FALSE, now |-> 0, rec |-> 0, clockIn |-> 0,
          eventType |-> "", failed |-> FALSE]

Saw(p) == IF loc[p].id = 0 THEN "none" ELSE IF loc[p].present THEN "present" ELSE "absent"

\* The handler answers and returns; the deferred tx.Rollback() (a no-op after
\* a commit) drops the connection's lock and uncommitted image.
Respond(p, answer) ==
  /\ events' = Append(events, [emp |-> loc[p].id, saw |-> Saw(p), answer |-> answer])
  /\ pc' = [pc EXCEPT ![p] = "idle"]
  /\ loc' = [loc EXCEPT ![p] = NoLoc]
  /\ lock' = [lock EXCEPT ![p] = "none"]
  /\ txdb' = [txdb EXCEPT ![p] = NoTx]

Fault == faults < MaxFaults /\ faults' = faults + 1

\* time.Now(): the clock may have advanced since it was last read.
Now(t) == t \in {clock, clock + 1} /\ t <= MaxTime /\ clock' = t

\* A statement of the transaction fails.  SQLite undoes the statement and keeps
\* the transaction, or (disk full, I/O error, out of memory) rolls the whole
\* transaction back; the handler goes on to tx.Commit() either way, because
\* the error it was given is overwritten there before it is read.
UncheckedFailure(p) ==
  /\ Fault
  /\ \/ UNCHANGED <<txdb, lock>>
     \/ /\ lock' = [lock EXCEPT ![p] = "none"]
        /\ txdb' = [txdb EXCEPT ![p] = NoTx]
  /\ pc' = [pc EXCEPT ![p] = "commit"]
  /\ loc' = [loc EXCEPT ![p].failed = TRUE]
  /\ UNCHANGED events

\* A statement of the transaction fails and the handler returns the error.
CheckedFailure(p, answer) == Fault /\ Respond(p, answer)

\* ---------------------------------------------------------------- arrival
\* The requests a client may send: a wrong method, a body that does not decode,
\* or a POST carrying a card UID.
Requests ==
  {[method |-> "GET", decodes |-> TRUE, uid |-> ""],
   [method |-> "POST", decodes |-> FALSE, uid |-> ""]}
  \cup {[method |-> "POST", decodes |-> TRUE, uid |-> u] : u \in Badges}

Arrive(p) ==
  /\ pc[p] = "idle"
  /\ scans < MaxScans
  /\ scans' = scans + 1
  /\ overlap' = (overlap \/ \E q \in Procs \ {p} : pc[q] # "idle")

\* An answer given before any store access.
Reject(p, answer) ==
  /\ events' = Append(events, [emp |-> 0, saw |-> "none", answer |-> answer])
  /\ UNCHANGED <<pc, loc>>

Accept(p, uid, next) ==
  /\ pc' = [pc EXCEPT ![p] = next]
  /\ loc' = [loc EXCEPT ![p] = [NoLoc EXCEPT !.uid = uid]]
  /\ UNCHANGED events

\* ------------------------------------------------- src/main.go handleRFIDScan
\* A body that decodes without a card_uid field leaves ScanRequest.CardUID "".
MainRequests ==
  Requests \cup {[method |-> "POST", decodes |-> TRUE, uid |-> ""]}

\* lines 425-434: the method and body checks, before any store access.
MainRequest(p) ==
  /\ handler = "main"
  /\ Arrive(p)
  /\ \E req \in MainRequests :
       IF req.method # "POST"
         THEN Reject(p, "Method not allowed")
         ELSE IF ~req.decodes
           THEN Reject(p, "Invalid request")
           ELSE Accept(p, req.uid, "begin")
  /\ UNCHANGED <<aside, handler, db, txdb, lock, clock, faults, users, clock_in_out>>

\* lines 437-443: db.Begin() (BEGIN DEFERRED takes no lock).
MainBegin(p) ==
  /\ handler = "main" /\ pc[p] = "begin"
  /\ \/ /\ pc' = [pc EXCEPT ![p] = "lookup"]
        /\ UNCHANGED <<txdb, lock, loc, events, faults>>
     \/ Fault /\ Respond(p, "Database error")
  /\ UNCHANGED <<aside, handler, db, clock, scans, overlap, users, clock_in_out>>

\* lines 446-461: tx.QueryRow inside the transaction takes SHARED, which the
\* connection keeps until the transaction ends; then time.Now().
LookupKeepsShared == "shared"
LookupKeepsNothing == "none"
MainLookupLock == LookupKeepsShared

MainLookup(p) ==
  /\ handler = "main" /\ pc[p] = "lookup"
  /\ \/ /\ ReadOutcome(p) = "ok"
        /\ LookupEmployee(View(p), loc[p].uid) = {}
        /\ Respond(p, "Unregistered card")
        /\ UNCHANGED <<clock, faults>>
     \/ /\ ReadOutcome(p) = "ok"
        /\ \E i \in LookupEmployee(View(p), loc[p].uid), t \in {clock, clock + 1} :
             /\ Now(t)
             /\ loc' = [loc EXCEPT ![p].id = i,
                                   ![p].present = View(p).employees[i].is_present,
                                   ![p].now = t]
             /\ pc' = [pc EXCEPT ![p] =
                         IF View(p).employees[i].is_present THEN "find" ELSE "insert"]
        /\ lock' = [lock EXCEPT ![p] = MainLookupLock]
        /\ UNCHANGED <<txdb, events, faults>>
     \/ Fault /\ Respond(p, "Database error") /\ UNCHANGED clock
  /\ UNCHANGED <<aside, handler, db, scans, overlap, users, clock_in_out>>

\* A write statement of the transaction applied to the connection's image.
TxWrite(p, d) ==
  /\ lock' = [lock EXCEPT ![p] = IF @ = "pending" THEN @ ELSE "reserved"]
  /\ txdb' = [txdb EXCEPT ![p] = d]

\* lines 463-472: clock-in, INSERT INTO time_records.
MainInsert(p) ==
  /\ handler = "main" /\ pc[p] = "insert"
  /\ \/ /\ WriteOutcome(p) = "ok"
        /\ TxWrite(p, InsertRecord(View(p), loc[p].id, loc[p].now))
        /\ pc' = [pc EXCEPT ![p] = "flagIn"]
        /\ UNCHANGED <<loc, events, faults>>
     \/ /\ WriteOutcome(p) = "busy"
        /\ Respond(p, "Failed to record clock-in")
        /\ UNCHANGED faults
     \/ Fault /\ Respond(p, "Failed to record clock-in")
  /\ UNCHANGED <<aside, handler, db, clock, scans, overlap, users, clock_in_out>>

\* lines 514-518: the error of either employee update is checked after the
\* branch and the handler returns.
MainFlagFailureIgnored(p) == UncheckedFailure(p)
MainFlagFailure(p) == Fault /\ Respond(p, "Failed to update employee status")

\* lines 474-478 and 514-518: UPDATE employees SET is_present = TRUE, checked
\* after the branch.
MainFlagIn(p) ==
  /\ handler = "main" /\ pc[p] = "flagIn"
  /\ \/ /\ WriteOutcome(p) = "ok"
        /\ TxWrite(p, SetPresent(View(p), loc[p].id, TRUE))
        /\ pc' = [pc EXCEPT ![p] = "commit"]
        /\ UNCHANGED <<loc, events, faults>>
     \/ MainFlagFailure(p)
  /\ UNCHANGED <<aside, handler, db, clock, scans, overlap, users, clock_in_out>>

\* lines 480-491: clock-out, SELECT the open record.  The query has no ORDER BY
\* and QueryRow takes the first row: any open record of the employee.
MainFind(p) ==
  /\ handler = "main" /\ pc[p] = "find"
  /\ \/ /\ ReadOutcome(p) = "ok"
        /\ OpenRecords(View(p), loc[p].id) = {}
        /\ Respond(p, "Failed to find open time record")
        /\ UNCHANGED faults
     \/ /\ ReadOutcome(p) = "ok"
        /\ \E r \in OpenRecords(View(p), loc[p].id) :
             loc' = [loc EXCEPT ![p].rec = r,
                                ![p].clockIn = View(p).time_records[r].clock_in]
        /\ pc' = [pc EXCEPT ![p] = "close"]
        /\ UNCHANGED <<txdb, lock, events, faults>>
     \/ Fault /\ Respond(p, "Failed to find open time record")
  /\ UNCHANGED <<aside, handler, db, clock, scans, overlap, users, clock_in_out>>

\* line 494: currentTime.Sub(clockIn).Hours()
HoursOfDay(clockIn, currentTime) == currentTime
HoursWorked(clockIn, currentTime) == currentTime - clockIn

\* lines 496-505: UPDATE time_records SET clock_out, total_hours, is_completed.
MainClose(p) ==
  /\ handler = "main" /\ pc[p] = "close"
  /\ \/ /\ WriteOutcome(p) = "ok"
        /\ TxWrite(p, CloseRecord(View(p), loc[p].rec, loc[p].now,
                                  HoursWorked(loc[p].clockIn, loc[p].now), TRUE))
        /\ pc' = [pc EXCEPT ![p] = "flagOut"]
        /\ UNCHANGED <<loc, events, faults>>
     \/ /\ WriteOutcome(p) = "busy"
        /\ Respond(p, "Failed to record clock-out")
        /\ UNCHANGED faults
     \/ Fault /\ Respond(p, "Failed to record clock-out")
  /\ UNCHANGED <<aside, handler, db, clock, scans, overlap, users, clock_in_out>>

\* lines 507-518: UPDATE employees SET is_present = FALSE, checked after the
\* branch.
MainFlagOut(p) ==
  /\ handler = "main" /\ pc[p] = "flagOut"
  /\ \/ /\ WriteOutcome(p) = "ok"
        /\ TxWrite(p, SetPresent(View(p), loc[p].id, FALSE))
        /\ pc' = [pc EXCEPT ![p] = "commit"]
        /\ UNCHANGED <<loc, events, faults>>
     \/ MainFlagFailure(p)
  /\ UNCHANGED <<aside, handler, db, clock, scans, overlap, users, clock_in_out>>

\* tx.Commit(), first half: the writer takes PENDING and waits for the readers.
CommitStart(p) ==
  /\ pc[p] = "commit"
  /\ lock' = [lock EXCEPT ![p] = IF @ = "reserved" THEN "pending" ELSE @]
  /\ pc' = [pc EXCEPT ![p] = "committing"]
  /\ UNCHANGED <<aside, handler, db, txdb, loc, clock, events, scans, faults, overlap,
                 users, clock_in_out>>

\* tx.Commit(), second half, and the answer that follows it.  With EXCLUSIVE
\* the image becomes the committed store.  COMMIT fails when SQLite has already
\* rolled the transaction back (no transaction is active) or on a store
\* failure; the driver rolls a failed COMMIT back.
CommitTx(p, okAnswer, errAnswer) ==
  \/ /\ lock[p] = "pending"
     /\ CanExclusive(p)
     /\ db' = txdb[p]
     /\ Respond(p, okAnswer)
     /\ UNCHANGED faults
  \/ /\ lock[p] # "pending"
     /\ Respond(p, errAnswer)
     /\ UNCHANGED <<db, faults>>
  \/ Fault /\ Respond(p, errAnswer) /\ UNCHANGED db

\* line 530: map[bool]string{true: "clock-out", false: "clock-in"}[employee.IsPresent]
MainAction(isPresent) == IF isPresent THEN "clock-out" ELSE "clock-in"

MainCommitStart(p) == handler = "main" /\ CommitStart(p)

\* lines 520-535: tx.Commit(), then the answer.
MainCommit(p) ==
  /\ handler = "main" /\ pc[p] = "committing"
  /\ CommitTx(p, MainAction(loc[p].present), "Database error")
  /\ UNCHANGED <<aside, handler, clock, scans, overlap, users, clock_in_out>>

\* ---------------------------------------- src/unnamed/part_003 handleRFIDScan
\* lines 106-118: the method and body checks.
P3Request(p) ==
  /\ handler = "p3"
  /\ Arrive(p)
  /\ \E req \in Requests :
       IF req.method # "POST"
         THEN Reject(p, "Method not allowed")
         ELSE IF ~req.decodes
           THEN Reject(p, "Invalid request body")
           ELSE Accept(p, req.uid, "lookup")
  /\ UNCHANGED <<aside, handler, db, txdb, lock, clock, faults, users, clock_in_out>>

\* The lock a lookup made with db.QueryRow (autocommit) leaves behind: none.
AutocommitReadLock == "none"

\* lines 120-132: the lookup, made on the pool before the transaction begins.
P3Lookup(p) ==
  /\ handler = "p3" /\ pc[p] = "lookup"
  /\ \/ /\ ReadOutcome(p) = "ok"
        /\ LookupEmployee(View(p), loc[p].uid) = {}
        /\ Respond(p, "Unknown card")
        /\ UNCHANGED faults
     \/ /\ ReadOutcome(p) = "ok"
        /\ \E i \in LookupEmployee(View(p), loc[p].uid) :
             loc' = [loc EXCEPT ![p].id = i,
                                ![p].present = View(p).employees[i].is_present]
        /\ pc' = [pc EXCEPT ![p] = "begin"]
        /\ lock' = [lock EXCEPT ![p] = AutocommitReadLock]
        /\ UNCHANGED <<txdb, events, faults>>
     \/ Fault /\ Respond(p, "Server error")
  /\ UNCHANGED <<aside, handler, db, clock, scans, overlap, users, clock_in_out>>

\* lines 134-146: db.Begin(), then time.Now().
P3Begin(p) ==
  /\ handler = "p3" /\ pc[p] = "begin"
  /\ \/ /\ \E t \in {clock, clock + 1} :
             /\ Now(t)
             /\ loc' = [loc EXCEPT ![p].now = t]
        /\ pc' = [pc EXCEPT ![p] = IF loc[p].present THEN "find" ELSE "insert"]
        /\ UNCHANGED <<txdb, lock, events, faults>>
     \/ Fault /\ Respond(p, "Server error") /\ UNCHANGED clock
  /\ UNCHANGED <<aside, handler, db, scans, overlap, users, clock_in_out>>

\* lines 148-157: clock-in, INSERT INTO time_records.
P3Insert(p) ==
  /\ handler = "p3" /\ pc[p] = "insert"
  /\ \/ /\ WriteOutcome(p) = "ok"
        /\ TxWrite(p, InsertRecord(View(p), loc[p].id, loc[p].now))
        /\ pc' = [pc EXCEPT ![p] = "flagIn"]
        /\ UNCHANGED <<loc, events, faults>>
     \/ /\ WriteOutcome(p) = "busy"
        /\ Respond(p, "Server error")
        /\ UNCHANGED faults
     \/ Fault /\ Respond(p, "Server error")
  /\ UNCHANGED <<aside, handler, db, clock, scans, overlap, users, clock_in_out>>

\* lines 159-162: UPDATE employees SET is_present = TRUE; err is assigned and
\* not read before line 192 overwrites it.
P3FlagFailure(p) == UncheckedFailure(p)

P3FlagIn(p) ==
  /\ handler = "p3" /\ pc[p] = "flagIn"
  /\ \/ /\ WriteOutcome(p) = "ok"
        /\ TxWrite(p, SetPresent(View(p), loc[p].id, TRUE))
        /\ pc' = [pc EXCEPT ![p] = "commit"]
        /\ UNCHANGED <<loc, events, faults>>
     \/ P3FlagFailure(p)
  /\ UNCHANGED <<aside, handler, db, clock, scans, overlap, users, clock_in_out>>

\* ORDER BY clock_in DESC LIMIT 1: an open record with the greatest clock_in
\* (any of them when several tie).
LatestOpen(d, emp) ==
  {r \in OpenRecords(d, emp) :
     \A o \in OpenRecords(d, emp) : d.time_records[o].clock_in <= d.time_records[r].clock_in}

\* lines 164-174: clock-out, SELECT the open record inside the transaction; the
\* connection takes SHARED and keeps it.
P3Find(p) ==
  /\ handler = "p3" /\ pc[p] = "find"
  /\ \/ /\ ReadOutcome(p) = "ok"
        /\ LatestOpen(View(p), loc[p].id) = {}
        /\ Respond(p, "Server error")
        /\ UNCHANGED faults
     \/ /\ ReadOutcome(p) = "ok"
        /\ \E r \in LatestOpen(View(p), loc[p].id) :
             loc' = [loc EXCEPT ![p].rec = r]
        /\ pc' = [pc EXCEPT ![p] = "close"]
        /\ lock' = [lock EXCEPT ![p] = "shared"]
        /\ UNCHANGED <<txdb, events, faults>>
     \/ Fault /\ Respond(p, "Server error")
  /\ UNCHANGED <<aside, handler, db, clock, scans, overlap, users, clock_in_out>>

\* lines 176-184: UPDATE time_records SET clock_out = ?, is_completed = TRUE
\* (part_003's table has no total_hours column).
P3Close(p) ==
  /\ handler = "p3" /\ pc[p] = "close"
  /\ \/ /\ WriteOutcome(p) = "ok"
        /\ TxWrite(p, CloseRecord(View(p), loc[p].rec, loc[p].now, NULL, TRUE))
        /\ pc' = [pc EXCEPT ![p] = "flagOut"]
        /\ UNCHANGED <<loc, events, faults>>
     \/ /\ WriteOutcome(p) = "busy"
        /\ Respond(p, "Server error")
        /\ UNCHANGED faults
     \/ Fault /\ Respond(p, "Server error")
  /\ UNCHANGED <<aside, handler, db, clock, scans, overlap, users, clock_in_out>>

\* lines 186-189: UPDATE employees SET is_present = FALSE, unchecked as well.
P3FlagOut(p) ==
  /\ handler = "p3" /\ pc[p] = "flagOut"
  /\ \/ /\ WriteOutcome(p) = "ok"
        /\ TxWrite(p, SetPresent(View(p), loc[p].id, FALSE))
        /\ pc' = [pc EXCEPT ![p] = "commit"]
        /\ UNCHANGED <<loc, events, faults>>
     \/ P3FlagFailure(p)
  /\ UNCHANGED <<aside, handler, db, clock, scans, overlap, users, clock_in_out>>

\* lines 160 and 187: response["action"]
P3Action(isPresent) == IF isPresent THEN "clock_out" ELSE "clock_in"

P3CommitStart(p) == handler = "p3" /\ CommitStart(p)

\* lines 192-199: tx.Commit(), then the answer.
P3Commit(p) ==
  /\ handler = "p3" /\ pc[p] = "committing"
  /\ CommitTx(p, P3Action(loc[p].present), "Server error")
  /\ UNCHANGED <<aside, handler, clock, scans, overlap, users, clock_in_out>>

\* --------------------------------------- src/unnamed/part_004 processCardScan
\* A CardScanEvent (lines 33-37): the card UID and the time the device gives.
P4Request(p) ==
  /\ handler = "p4"
  /\ Arrive(p)
  /\ \E uid \in Badges, t \in 0 .. MaxTime :
       /\ pc' = [pc EXCEPT ![p] = "lookup"]
       /\ loc' = [loc EXCEPT ![p] = [NoLoc EXCEPT !.uid = uid, !.now = t]]
  /\ UNCHANGED <<aside, handler, db, txdb, lock, clock, events, faults, users, clock_in_out>>

\* Row.Scan into a time.Time field fails on a NULL column.
ScansIntoTime(v) == v # NULL

\* lines 98-117: the lookup, made on the pool before the transaction begins,
\* scans last_clock_in and last_clock_out into time.Time fields.
P4Lookup(p) ==
  /\ handler = "p4" /\ pc[p] = "lookup"
  /\ \/ /\ ReadOutcome(p) = "ok"
        /\ LookupEmployee(View(p), loc[p].uid) = {}
        /\ Respond(p, "unknown card")
        /\ UNCHANGED faults
     \/ /\ ReadOutcome(p) = "ok"
        /\ \E i \in LookupEmployee(View(p), loc[p].uid) :
             IF ScansIntoTime(View(p).employees[i].last_clock_in)
                /\ ScansIntoTime(View(p).employees[i].last_clock_out)
               THEN /\ loc' = [loc EXCEPT ![p].id = i,
                                          ![p].present = View(p).employees[i].is_present]
                    /\ pc' = [pc EXCEPT ![p] = "begin"]
                    /\ lock' = [lock EXCEPT ![p] = AutocommitReadLock]
                    /\ UNCHANGED <<txdb, events>>
               ELSE Respond(p, "database error")
        /\ UNCHANGED faults
     \/ Fault /\ Respond(p, "database error")
  /\ UNCHANGED <<aside, handler, db, clock, scans, overlap, users, clock_in_out>>

\* lines 119-127: db.Begin().
P4Begin(p) ==
  /\ handler = "p4" /\ pc[p] = "begin"
  /\ \/ /\ pc' = [pc EXCEPT ![p] = IF loc[p].present THEN "find" ELSE "insert"]
        /\ UNCHANGED <<txdb, lock, loc, events, faults>>
     \/ Fault /\ Respond(p, "transaction error")
  /\ UNCHANGED <<aside, handler, db, clock, scans, overlap, users, clock_in_out>>

\* lines 131-140: clock-in, INSERT INTO time_records; recordID is LastInsertId.
P4Insert(p) ==
  /\ handler = "p4" /\ pc[p] = "insert"
  /\ \/ /\ WriteOutcome(p) = "ok"
        /\ TxWrite(p, InsertRecord(View(p), loc[p].id, loc[p].now))
        /\ loc' = [loc EXCEPT ![p].rec = Len(View(p).time_records) + 1]
        /\ pc' = [pc EXCEPT ![p] = "flagIn"]
        /\ UNCHANGED <<events, faults>>
     \/ /\ WriteOutcome(p) = "busy"
        /\ Respond(p, "clock-in error")
        /\ UNCHANGED faults
     \/ CheckedFailure(p, "clock-in error")
  /\ UNCHANGED <<aside, handler, db, clock, scans, overlap, users, clock_in_out>>

\* UPDATE employees SET is_present = TRUE, last_clock_in = ? WHERE id = ?
SetClockedIn(d, emp, t) ==
  [d EXCEPT !.employees[emp].is_present = TRUE, !.employees[emp].last_clock_in = t]

\* An employee update of a clock-out that leaves is_present as it is.
SetLastClockOutOnly(d, emp, t) ==
  [d EXCEPT !.employees[emp].last_clock_out = t]

\* UPDATE employees SET is_present = FALSE, last_clock_out = ? WHERE id = ?
SetClockedOut(d, emp, t) ==
  [d EXCEPT !.employees[emp].is_present = FALSE, !.employees[emp].last_clock_out = t]

\* lines 142-149: the employee update of a clock-in, checked.
P4FlagIn(p) ==
  /\ handler = "p4" /\ pc[p] = "flagIn"
  /\ \/ /\ WriteOutcome(p) = "ok"
        /\ TxWrite(p, SetClockedIn(View(p), loc[p].id, loc[p].now))
        /\ pc' = [pc EXCEPT ![p] = "verify"]
        /\ UNCHANGED <<loc, events, faults>>
     \/ CheckedFailure(p, "employee update error")
  /\ UNCHANGED <<aside, handler, db, clock, scans, overlap, users, clock_in_out>>

\* lines 151-161 and 201-213: the record is read back inside the transaction.
P4Verify(p) ==
  /\ handler = "p4" /\ pc[p] = "verify"
  /\ \/ /\ loc[p].rec \in DOMAIN View(p).time_records
        /\ pc' = [pc EXCEPT ![p] = "commit"]
        /\ UNCHANGED <<txdb, lock, loc, events, faults>>
     \/ CheckedFailure(p, "verification error")
  /\ UNCHANGED <<aside, handler, db, clock, scans, overlap, users, clock_in_out>>

\* lines 167-180: clock-out, SELECT ... WHERE clock_out IS NULL ORDER BY
\* clock_in DESC LIMIT 1 inside the transaction.
P4Find(p) ==
  /\ handler = "p4" /\ pc[p] = "find"
  /\ \/ /\ ReadOutcome(p) = "ok"
        /\ LatestOpen(View(p), loc[p].id) = {}
        /\ Respond(p, "record lookup error")
        /\ UNCHANGED faults
     \/ /\ ReadOutcome(p) = "ok"
        /\ \E r \in LatestOpen(View(p), loc[p].id) :
             loc' = [loc EXCEPT ![p].rec = r,
                                ![p].clockIn = View(p).time_records[r].clock_in]
        /\ pc' = [pc EXCEPT ![p] = "close"]
        /\ lock' = [lock EXCEPT ![p] = "shared"]
        /\ UNCHANGED <<txdb, events, faults>>
     \/ CheckedFailure(p, "record lookup error")
  /\ UNCHANGED <<aside, handler, db, clock, scans, overlap, users, clock_in_out>>

\* line 185: ROUND(CAST((JULIANDAY(?) - JULIANDAY(clock_in)) * 24 AS REAL), 2):
\* hours rounded to hundredths, halves away from zero.  Durations are kept in
\* ticks of half a hundredth of an hour.
TicksPerHundredth == 2
RoundHundredths(d) ==
  IF d >= 0 THEN TicksPerHundredth * ((d + 1) \div TicksPerHundredth)
            ELSE 0 - TicksPerHundredth * ((1 - d) \div TicksPerHundredth)

\* lines 182-190: UPDATE time_records SET clock_out = ?, total_hours = ROUND(..)
\* (part_004's table has no is_completed column).
P4Close(p) ==
  /\ handler = "p4" /\ pc[p] = "close"
  /\ \/ /\ WriteOutcome(p) = "ok"
        /\ TxWrite(p, CloseRecord(View(p), loc[p].rec, loc[p].now,
                        RoundHundredths(loc[p].now - View(p).time_records[loc[p].rec].clock_in),
                        FALSE))
        /\ pc' = [pc EXCEPT ![p] = "flagOut"]
        /\ UNCHANGED <<loc, events, faults>>
     \/ /\ WriteOutcome(p) = "busy"
        /\ Respond(p, "clock-out error")
        /\ UNCHANGED faults
     \/ CheckedFailure(p, "clock-out error")
  /\ UNCHANGED <<aside, handler, db, clock, scans, overlap, users, clock_in_out>>

\* lines 192-199: the employee update of a clock-out, checked.
P4FlagOut(p) ==
  /\ handler = "p4" /\ pc[p] = "flagOut"
  /\ \/ /\ WriteOutcome(p) = "ok"
        /\ TxWrite(p, SetClockedOut(View(p), loc[p].id, loc[p].now))
        /\ pc' = [pc EXCEPT ![p] = "verify"]
        /\ UNCHANGED <<loc, events, faults>>
     \/ CheckedFailure(p, "employee update error")
  /\ UNCHANGED <<aside, handler, db, clock, scans, overlap, users, clock_in_out>>

P4CommitStart(p) == handler = "p4" /\ CommitStart(p)

\* lines 216-222: tx.Commit(); success returns the Employee read by the lookup.
P4Commit(p) ==
  /\ handler = "p4" /\ pc[p] = "committing"
  /\ CommitTx(p, "ok", "commit error")
  /\ UNCHANGED <<aside, handler, clock, scans, overlap, users, clock_in_out>>

\* ------------------------------------------ src/server/api.go handleRFIDScan
\* A conversion that leaves the case of a character as it is.
KeepCase(c) == c

\* A UID is a sequence of characters.  strings.ToUpper on one character:
ToUpper(c) == IF c = "a" THEN "A" ELSE IF c = "b" THEN "B" ELSE c

\* strings.ReplaceAll(uid, " ", "")
RECURSIVE RemoveSpaces(_)
RemoveSpaces(u) ==
  IF u = <<>> THEN <<>>
  ELSE IF Head(u) = " " THEN RemoveSpaces(Tail(u))
  ELSE <<Head(u)>> \o RemoveSpaces(Tail(u))

\* lines 18-22: normalizeRFIDInput returns (original, normalized).
Normalized(uid) == [i \in DOMAIN RemoveSpaces(uid) |-> ToUpper(RemoveSpaces(uid)[i])]
normalizeRFIDInput(uid) == <<uid, Normalized(uid)>>

\* No call of normalizeRFIDInput has been made.
NoCall == [uid |-> <<>>, returned |-> FALSE, original |-> <<>>, normalized |-> <<>>]

\* The UIDs presented to the server: one badge written with a space, in upper
\* case, and with a tab.
ApiUIDs == {<<"a", " ", "b">>, <<"A", "B">>, <<"a", "\t", "b">>}

ApiRequests ==
  {[method |-> "GET", decodes |-> TRUE, uid |-> <<>>],
   [method |-> "POST", decodes |-> FALSE, uid |-> <<>>],
   [method |-> "POST", decodes |-> TRUE, uid |-> <<>>]}
  \cup {[method |-> "POST", decodes |-> TRUE, uid |-> u] : u \in ApiUIDs}

\* A users table in which only rfid_uid_original is UNIQUE.
UniqueOriginalOnly(us, orig, norm) ==
  \A i \in DOMAIN us : us[i].rfid_uid_original # orig

\* src/server/database.go lines 9-14: both UID columns of users are UNIQUE.
UserInsertAllowed(us, orig, norm) ==
  \A i \in DOMAIN us : us[i].rfid_uid_original # orig /\ us[i].rfid_uid_normalized # norm

\* src/server/main.go lines 405-436: addUserHandler stores the UID as typed and
\* as normalized; a UNIQUE violation fails the INSERT.
addUserHandler ==
  /\ handler \in {"api", "database"}
  /\ Len(users) < MaxUsers
  /\ \E uid \in ApiUIDs :
       /\ UserInsertAllowed(users, normalizeRFIDInput(uid)[1], normalizeRFIDInput(uid)[2])
       /\ users' = Append(users, [rfid_uid_original |-> normalizeRFIDInput(uid)[1],
                                  rfid_uid_normalized |-> normalizeRFIDInput(uid)[2]])
  /\ UNCHANGED <<aside, handler, db, txdb, lock, pc, loc, clock, events, scans, faults, overlap,
                 clock_in_out>>

\* lines 25-35: the method, body and empty-UID checks.
ApiRequest(p) ==
  /\ handler = "api"
  /\ Arrive(p)
  /\ \E req \in ApiRequests :
       IF req.method # "POST"
         THEN Reject(p, "Invalid request method")
         ELSE IF ~req.decodes \/ req.uid = <<>>
           THEN Reject(p, "Invalid request payload")
           ELSE Accept(p, req.uid, "lookup")
  /\ UNCHANGED <<aside, handler, db, txdb, lock, clock, faults, users, clock_in_out>>

\* lines 42-44: WHERE rfid_uid_original = ? OR rfid_uid_normalized = ?
LookupUser(us, originalUID, normalizedUID) ==
  {i \in DOMAIN us : us[i].rfid_uid_original = originalUID
                     \/ us[i].rfid_uid_normalized = normalizedUID}

\* lines 37-52: the lookup; QueryRow takes the first row the query yields.
ApiLookup(p) ==
  /\ handler = "api" /\ pc[p] = "lookup"
  /\ \/ /\ LookupUser(users, normalizeRFIDInput(loc[p].uid)[1],
                      normalizeRFIDInput(loc[p].uid)[2]) = {}
        /\ Respond(p, "Unknown RFID card")
        /\ UNCHANGED faults
     \/ /\ \E i \in LookupUser(users, normalizeRFIDInput(loc[p].uid)[1],
                               normalizeRFIDInput(loc[p].uid)[2]) :
             loc' = [loc EXCEPT ![p].id = i]
        /\ pc' = [pc EXCEPT ![p] = "last"]
        /\ UNCHANGED <<txdb, lock, events, faults>>
     \/ Fault /\ Respond(p, "Database error")
  /\ UNCHANGED <<aside, handler, db, clock, scans, overlap, users, clock_in_out>>

\* line 61: 12*time.Hour, in ticks.
TicksPerHour == 100 * TicksPerHundredth
TwelveHours == 12 * TicksPerHour

\* The time that may pass between two readings of the server's clock.
Gaps == {0, TwelveHours - 1, TwelveHours}

\* lines 56-58: SELECT timestamp ... ORDER BY timestamp DESC LIMIT 1
LastTimestamps(rows, userId) ==
  {rows[i].timestamp : i \in {j \in DOMAIN rows : rows[j].user_id = userId
       /\ \A k \in DOMAIN rows : rows[k].user_id = userId => rows[k].timestamp <= rows[j].timestamp}}

\* lines 60-63: Clock-Out when the query gave a row less than 12 hours old.
EventType(found, lastTimestamp, now) ==
  IF found /\ now - lastTimestamp < TwelveHours THEN "Clock-Out" ELSE "Clock-In"

\* lines 54-63: the latest row of the user decides the event kind; an error of
\* the query (no row, or a store failure) leaves it Clock-In.
ApiLast(p) ==
  /\ handler = "api" /\ pc[p] = "last"
  /\ \E g \in Gaps :
       /\ clock' = clock + g
       /\ \/ /\ LastTimestamps(clock_in_out, loc[p].id) = {}
             /\ loc' = [loc EXCEPT ![p].eventType = EventType(FALSE, 0, clock')]
             /\ UNCHANGED faults
          \/ /\ \E ts \in LastTimestamps(clock_in_out, loc[p].id) :
                  loc' = [loc EXCEPT ![p].eventType = EventType(TRUE, ts, clock')]
             /\ UNCHANGED faults
          \/ /\ Fault
             /\ loc' = [loc EXCEPT ![p].eventType = EventType(FALSE, 0, clock'),
                                   ![p].failed = TRUE]
  /\ pc' = [pc EXCEPT ![p] = "insert"]
  /\ UNCHANGED <<aside, handler, db, txdb, lock, events, scans, overlap, users, clock_in_out>>

\* lines 65-76: INSERT INTO clock_in_out (... timestamp) VALUES (... datetime('now')),
\* then the answer "<event type>: <name>".
ApiInsert(p) ==
  /\ handler = "api" /\ pc[p] = "insert"
  /\ \/ /\ clock_in_out' = Append(clock_in_out, [user_id |-> loc[p].id, timestamp |-> clock])
        /\ Respond(p, loc[p].eventType)
        /\ UNCHANGED faults
     \/ Fault /\ Respond(p, "Failed to record scan") /\ UNCHANGED clock_in_out
  /\ UNCHANGED <<aside, handler, db, clock, scans, overlap, users>>

\* -------------------------------------------------------------- the system
\* The store when the server starts.  Employees are enrolled beforehand; the
\* handlers never insert one.  In part_004's store the first employee's
\* last_clock_in and last_clock_out have been filled in by whoever enrolled it,
\* the second is as part_004's own main() inserts its test employee (NULL).
InitialEmployees(h) ==
  [i \in DOMAIN EnrolledCards |->
     IF h = "p4" /\ i = 1 THEN NewEmployee(EnrolledCards[i], 0, 0)
                         ELSE NewEmployee(EnrolledCards[i], NULL, NULL)]

\* The store file outlives the server (CREATE TABLE IF NOT EXISTS): the server
\* starts on the store d it finds.
\* The latest timestamp of store d: the server's clock is not behind it.
StoreTime(d) ==
  LET ts == {0} \cup {d.time_records[r].clock_in : r \in DOMAIN d.time_records}
  IN  CHOOSE t \in ts : \A u \in ts : u <= t

InitStore(h, d) ==
  /\ handler = h
  /\ db = d
  /\ txdb = [p \in Procs |-> NoTx]
  /\ lock = [p \in Procs |-> "none"]
  /\ pc = [p \in Procs |-> "idle"]
  /\ loc = [p \in Procs |-> NoLoc]
  /\ clock = StoreTime(d)
  /\ events = <<>>
  /\ scans = 0
  /\ faults = 0
  /\ overlap = FALSE
  /\ users = <<>>
  /\ clock_in_out = <<>>
  /\ reply = NoReply
  /\ lastScanTime = ZeroTime
  /\ scanEntry = <<>>
  /\ posts = <<>>
  /\ wedge = <<>>
  /\ wall = 0

InitWith(h, d) == InitStore(h, d) /\ call = NoCall

\* A fresh store: the enrolled employees, no time record.
FreshStore(h) == [employees |-> InitialEmployees(h), time_records |-> <<>>]

InitOf(h) == InitWith(h, FreshStore(h))

\* A closed record as handler h's clock-out branch writes it (part_003 has no
\* total_hours column, part_004 no is_completed column).
ClosedRecord(h, emp, t) ==
  [employee_id |-> emp, clock_in |-> t, clock_out |-> t,
   total_hours |-> IF h = "p3" THEN NULL ELSE 0, is_completed |-> (h # "p4")]

\* Stores in which the flag and the ledger of the first employee disagree, as
\* an earlier run, a restored backup or another program writing the same file
\* leaves them: Present with no open record (one closed), Present with two
\* open records, Absent with one open record.
FoundStores(h) ==
  {[employees |-> [InitialEmployees(h) EXCEPT ![1].is_present = TRUE],
    time_records |-> <<ClosedRecord(h, 1, 0)>>],
   [employees |-> [InitialEmployees(h) EXCEPT ![1].is_present = TRUE],
    time_records |-> <<NewTimeRecord(1, 0), NewTimeRecord(1, 1)>>],
   [employees |-> InitialEmployees(h),
    time_records |-> <<NewTimeRecord(1, 0)>>]}

NextMain ==
  \E p \in Procs :
    \/ MainRequest(p)
    \/ MainBegin(p)
    \/ MainLookup(p)
    \/ MainInsert(p)
    \/ MainFlagIn(p)
    \/ MainFind(p)
    \/ MainClose(p)
    \/ MainFlagOut(p)
    \/ MainCommitStart(p)
    \/ MainCommit(p)

NextP3 ==
  \E p \in Procs :
    \/ P3Request(p)
    \/ P3Lookup(p)
    \/ P3Begin(p)
    \/ P3Insert(p)
    \/ P3FlagIn(p)
    \/ P3Find(p)
    \/ P3Close(p)
    \/ P3FlagOut(p)
    \/ P3CommitStart(p)
    \/ P3Commit(p)

NextP4 ==
  \E p \in Procs :
    \/ P4Request(p)
    \/ P4Lookup(p)
    \/ P4Begin(p)
    \/ P4Insert(p)
    \/ P4FlagIn(p)
    \/ P4Verify(p)
    \/ P4Find(p)
    \/ P4Close(p)
    \/ P4FlagOut(p)
    \/ P4CommitStart(p)
    \/ P4Commit(p)

NextApi ==
  \/ addUserHandler
  \/ \E p \in Procs : ApiRequest(p) \/ ApiLookup(p) \/ ApiLast(p) \/ ApiInsert(p)

Init == \E h \in {"main", "p3", "p4", "api"} : InitOf(h)
Next == NextMain \/ NextP3 \/ NextP4 \/ NextApi

\* Every handler, each in its own deployment.
Spec == Init /\ [][Next]_vars
\* src/main.go alone.
SpecMain == InitOf("main") /\ [][NextMain]_vars
\* src/unnamed/part_003 alone.
SpecP3 == InitOf("p3") /\ [][NextP3]_vars
\* src/unnamed/part_004 alone.
SpecP4 == InitOf("p4") /\ [][NextP4]_vars
\* src/server/api.go alone.
SpecApi == InitOf("api") /\ [][NextApi]_vars
\* The three SQL handlers, each started on a store whose flag and ledger
\* disagree.
InitFound == \E h \in {"main", "p3", "p4"} : \E d \in FoundStores(h) : InitWith(h, d)
NextSql == NextMain \/ NextP3 \/ NextP4
SpecFound == InitFound /\ [][NextSql]_vars
\* ------------------------------------------------------------------ claims
SqlHandlers == {"main", "p3", "p4"}
EmployeeIds == DOMAIN db.employees

OpenCount(d, e) == Cardinality(OpenRecords(d, e))
AtMostOneOpen(d) == \A e \in DOMAIN d.employees : OpenCount(d, e) <= 1
InTx(p) == lock[p] \in {"reserved", "pending"}

\* The event kind of an answer: "in", "out", or "none" for a scan that failed.
\* processCardScan answers success with the Employee it read, and the branch it
\* took is the event kind.
Kind(e) ==
  IF e.answer \in {"clock-in", "clock_in", "Clock-In"} THEN "in"
  ELSE IF e.answer \in {"clock-out", "clock_out", "Clock-Out"} THEN "out"
  ELSE IF e.answer = "ok" THEN (IF e.saw = "absent" THEN "in" ELSE "out")
  ELSE "none"

\* The kinds of the successful scans of employee (or user) e, in order.
KindsOf(e) ==
  LET Ok(ev) == ev.emp = e /\ Kind(ev) # "none"
      evs == SelectSeq(events, Ok)
  IN  [i \in DOMAIN evs |-> Kind(evs[i])]

Alternates(ks) == \A i \in DOMAIN ks : ks[i] = IF i % 2 = 1 THEN "in" ELSE "out"

AllIdle == \A p \in Procs : pc[p] = "idle"

\* Request p answers in this step.
Answers(p) == pc[p] # "idle" /\ pc'[p] = "idle"
Answer == events'[Len(events')].answer

\* C1: with main.go's handleRFIDScan, in every reachable state of the committed
\* store and of every transaction's image, each employee has at most one open
\* time_records row.
C1_AtMostOneOpenRecord ==
  handler = "main" =>
    /\ AtMostOneOpen(db)
    /\ \A p \in Procs : InTx(p) => AtMostOneOpen(txdb[p])

\* C1 witness: two scans of one badge raced (both read Absent), both have
\* answered, and the employee has exactly one open record.
C1_Witness ==
  /\ handler = "main" /\ overlap /\ AllIdle
  /\ \E i, j \in DOMAIN events :
       /\ i < j /\ events[i].emp # 0 /\ events[i].emp = events[j].emp
       /\ events[i].saw = "absent" /\ events[j].saw = "absent"
       /\ OpenCount(db, events[i].emp) = 1

\* C2: with main.go's handleRFIDScan, in every committed state an employee's
\* is_present flag is TRUE exactly when the employee has exactly one open row.
C2_FlagAgreesWithLedger ==
  handler = "main" =>
    \A e \in EmployeeIds : db.employees[e].is_present <=> (OpenCount(db, e) = 1)

\* C2 witness: an employee who clocked in, out and in again: present, one open
\* row, one closed row.
C2_Witness ==
  /\ handler = "main"
  /\ \E e \in EmployeeIds :
       /\ db.employees[e].is_present
       /\ OpenCount(db, e) = 1
       /\ \E r \in DOMAIN db.time_records :
            db.time_records[r].employee_id = e /\ db.time_records[r].is_completed

\* C3: with the handlers that look the employee up before beginning their
\* transaction (part_003, part_004), no interleaving of scans leaves an employee
\* with two open time_records rows (no store failure involved).
C3_NoTwoOpenRecords ==
  (handler \in {"p3", "p4"} /\ faults = 0) => AtMostOneOpen(db)

\* C4: with main.go's handleRFIDScan, when the first two scans are of the same
\* badge, its employee Absent, and no store failure occurs, both scans succeed:
\* one answers clock-in and the other clock-out.
C4_RaceGivesClockInAndClockOut ==
  (/\ handler = "main" /\ faults = 0 /\ scans = 2 /\ AllIdle
   /\ Len(events) = 2
   /\ events[1].emp # 0 /\ events[1].emp = events[2].emp)
  => {events[1].answer, events[2].answer} = {"clock-in", "clock-out"}

\* C5: with main.go's handleRFIDScan, two scans of one badge that are in flight
\* together never both hold is_present = FALSE as read inside their transactions.
C5_NeverBothReadAbsent ==
  (handler = "main" /\ faults = 0) =>
    \A p, q \in Procs :
      (/\ p # q
       /\ pc[p] \notin {"idle", "begin", "lookup"}
       /\ pc[q] \notin {"idle", "begin", "lookup"}
       /\ loc[p].id = loc[q].id)
      => (loc[p].present \/ loc[q].present)

\* C6: with main.go, part_003 and part_004, when scans are processed one after
\* another, the kinds of the successful scans of each employee alternate
\* clock-in, clock-out, clock-in, ... starting with clock-in.
C6_SequentialScansAlternate ==
  (handler \in SqlHandlers /\ ~overlap) =>
    \A e \in EmployeeIds : Alternates(KindsOf(e))

\* C7: with api.go's handleRFIDScan, when scans are processed one after another
\* and no store failure occurs, the event kinds answered for each user alternate
\* Clock-In, Clock-Out, Clock-In, ... starting with Clock-In, whatever time
\* passes between the scans.
C7_ApiScansAlternate ==
  (handler = "api" /\ ~overlap /\ faults = 0) =>
    \A u \in DOMAIN users : Alternates(KindsOf(u))

\* The badge of request p matches no enrolled employee (SQL handlers), or no
\* enrolled user after normalization (api.go).
Unenrolled(p) ==
  IF handler = "api"
    THEN \A i \in DOMAIN users :
           Normalized(users[i].rfid_uid_original) # Normalized(loc[p].uid)
    ELSE \A i \in DOMAIN db.employees : db.employees[i].card_uid # loc[p].uid

\* C8: in every handler, no step of a scan whose badge matches no enrolled
\* employee or user writes anything: the committed tables are unchanged and the
\* scan's connection never holds a write lock.
C8_UnknownBadgeWritesNothing ==
  [][\A p \in Procs :
       (pc[p] # "idle" /\ pc'[p] # pc[p] /\ Unenrolled(p)) =>
         /\ UNCHANGED <<db, users, clock_in_out>>
         /\ ~InTx(p)
         /\ lock'[p] \notin {"reserved", "pending"}]_vars

\* C8 witness: a store that holds records, and a scan answered as unknown.
C8_Witness ==
  /\ Len(db.time_records) + Len(clock_in_out) > 0
  /\ \E i \in DOMAIN events :
       events[i].answer \in {"Unregistered card", "Unknown card", "unknown card",
                             "Unknown RFID card"}

\* The dedicated rejection of each handler, and its internal-failure answers.
UnknownAnswer ==
  CASE handler = "main" -> "Unregistered card"
    [] handler = "p3" -> "Unknown card"
    [] handler = "p4" -> "unknown card"
    [] OTHER -> "Unknown RFID card"
FailureAnswers ==
  CASE handler = "main" -> {"Database error", "Failed to record clock-in",
                            "Failed to find open time record",
                            "Failed to record clock-out",
                            "Failed to update employee status"}
    [] handler = "p3" -> {"Server error"}
    [] handler = "p4" -> {"database error", "transaction error", "clock-in error",
                          "employee update error", "verification error",
                          "record lookup error", "clock-out error", "commit error"}
    [] OTHER -> {"Database error", "Failed to record scan"}

\* C9: in main.go, part_003 and part_004 the dedicated rejection is answered
\* exactly when the lookup ran and found no row, and a scan that met a store
\* failure (in this step or an earlier one) answers an internal-failure error.
C9_UnknownDistinctFromFailure ==
  [][\A p \in Procs :
       (handler \in SqlHandlers /\ Answers(p)) =>
         /\ (Answer = UnknownAnswer) <=>
              (pc[p] = "lookup" /\ Unenrolled(p) /\ faults' = faults)
         /\ (faults' # faults \/ loc[p].failed) => Answer \in FailureAnswers]_vars

\* Request p's transaction, applied whole to the committed store d.
BothWrites(d, p) ==
  IF loc[p].present
    THEN SetPresent(CloseRecord(d, loc[p].rec, loc[p].now,
                                HoursWorked(loc[p].clockIn, loc[p].now), TRUE),
                    loc[p].id, FALSE)
    ELSE SetPresent(InsertRecord(d, loc[p].id, loc[p].now), loc[p].id, TRUE)

\* C10: with main.go's handleRFIDScan the committed store changes only in the
\* step in which a scan answers success, and then by both writes of that scan
\* (ledger row and flag); a step in which a scan answers an error, and every
\* other step, leaves the committed store as it was.
C10_AllOrNothing ==
  [][handler = "main" =>
       /\ \A p \in Procs :
            Answers(p) =>
              IF Answer \in {"clock-in", "clock-out"}
                THEN db' = BothWrites(db, p)
                ELSE db' = db
       /\ (\A p \in Procs : ~Answers(p)) => db' = db]_vars

\* C10 witness: the flag update failed after the ledger insert had succeeded
\* inside the transaction, and the committed ledger is still empty.
C10_Witness ==
  /\ handler = "main"
  /\ db.time_records = <<>>
  /\ \A e \in EmployeeIds : ~db.employees[e].is_present
  /\ \E i \in DOMAIN events : events[i].answer = "Failed to update employee status"


\* part_003 lines 148-189: request p's transaction, applied whole to the
\* committed store d (part_003's table has no total_hours column).
P3BothWrites(d, p) ==
  IF loc[p].present
    THEN SetPresent(CloseRecord(d, loc[p].rec, loc[p].now, NULL, TRUE), loc[p].id, FALSE)
    ELSE SetPresent(InsertRecord(d, loc[p].id, loc[p].now), loc[p].id, TRUE)

\* C11: with part_003's handleRFIDScan a scan that answers success has committed
\* both of its writes (ledger row and flag), and a scan that answers an error
\* has committed nothing; in particular a scan whose flag UPDATE failed commits
\* nothing and does not answer success.
C11_P3AllOrNothing ==
  [][handler = "p3" =>
       \A p \in Procs :
         Answers(p) =>
           IF Answer \in {"clock_in", "clock_out"}
             THEN db' = P3BothWrites(db, p) /\ ~loc[p].failed
             ELSE db' = db]_vars


\* The closed records of store d (clock_out set).
ClosedRecords(d) == {r \in DOMAIN d.time_records : d.time_records[r].clock_out # NULL}

DurationExact(d) ==
  \A r \in ClosedRecords(d) :
    d.time_records[r].total_hours = d.time_records[r].clock_out - d.time_records[r].clock_in

\* C12: with main.go's handleRFIDScan every closed record, committed or in a
\* transaction's image, has total_hours equal to its clock_out minus its
\* clock_in.
C12_MainDurationExact ==
  handler = "main" =>
    /\ DurationExact(db)
    /\ \A p \in Procs : InTx(p) => DurationExact(txdb[p])

\* C12 witness: a committed record closed later than it was opened.
C12_Witness ==
  /\ handler = "main"
  /\ \E r \in ClosedRecords(db) :
       /\ db.time_records[r].clock_out > db.time_records[r].clock_in
       /\ db.time_records[r].total_hours > 0


\* C13: with part_004's processCardScan every committed closed record has
\* total_hours equal to its clock_out minus its clock_in, to the resolution of
\* the model's clock (18 seconds).
C13_P4DurationExact ==
  handler = "p4" => DurationExact(db)


\* The records this step closes: open in the committed store before it, closed
\* after it.
ClosedByStep ==
  {r \in DOMAIN db.time_records :
     IsOpen(db.time_records[r]) /\ ~IsOpen(db'.time_records[r])}

\* C14: in main.go, part_003 and part_004 a record closed by a clock-out is an
\* open record of its employee with the greatest clock_in, also when the
\* employee has several open records.
C14_ClosesMostRecentOpen ==
  [][(handler \in SqlHandlers) =>
       \A r \in ClosedByStep :
         r \in LatestOpen(db, db.time_records[r].employee_id)]_vars


\* Employee e has no record with clock_out absent in store d.
NoOpenRecord(d, e) ==
  \A r \in DOMAIN d.time_records :
    d.time_records[r].employee_id = e => r \in ClosedRecords(d)

\* The answer of each handler when the open record is not found.
NoOpenRecordAnswer ==
  CASE handler = "main" -> "Failed to find open time record"
    [] handler = "p3" -> "Server error"
    [] OTHER -> "record lookup error"

\* C15: in main.go, part_003 and part_004 a scan that read the flag as Present
\* and looks for the open record while its employee has none answers the
\* no-open-record failure in that step, and the committed store (flag and
\* ledger) is unchanged; the scan goes no further.
C15_PresentWithoutOpenRecordFails ==
  [][\A p \in Procs :
       (/\ handler \in SqlHandlers
        /\ pc[p] = "find" /\ pc'[p] # "find"
        /\ NoOpenRecord(View(p), loc[p].id))
       => (Answers(p) /\ Answer = NoOpenRecordAnswer /\ db' = db)]_vars

\* C15 witness: without any store failure a scan that read Present was answered
\* the no-open-record failure; its employee is still Present and has no open
\* record, in a store that holds a closed one.
C15_Witness ==
  /\ handler \in SqlHandlers /\ faults = 0
  /\ \E i \in DOMAIN events :
       /\ events[i].emp # 0 /\ events[i].saw = "present"
       /\ events[i].answer = NoOpenRecordAnswer
       /\ db.employees[events[i].emp].is_present
       /\ NoOpenRecord(db, events[i].emp)
       /\ ClosedRecords(db) # {}


\* C16: in main.go, part_003 and part_004 a scan that read the flag as Present
\* and answers while its employee has more than one open record in the
\* committed store answers an internal-failure error and leaves the committed
\* store unchanged.
C16_SeveralOpenRecordsIsHardFailure ==
  [][\A p \in Procs :
       (/\ handler \in SqlHandlers
        /\ Answers(p) /\ loc[p].present
        /\ OpenCount(db, loc[p].id) > 1)
       => (Answer \in FailureAnswers /\ db' = db)]_vars


\* C17: in main.go and part_004, with scans processed one after another, no
\* step adds an open record to an employee who already has one in the committed
\* store: a scan that finds the flag Absent beside an open record inserts no
\* second open row.
C17_NoSecondOpenRecord ==
  [][\A e \in EmployeeIds :
       (/\ handler \in {"main", "p4"} /\ ~overlap
        /\ OpenCount(db, e) >= 1)
       => OpenCount(db', e) <= OpenCount(db, e)]_vars


\* C18: in main.go, part_003 and part_004 no step changes a committed record
\* that is closed (clock_out set): it stays in the ledger with the same
\* employee_id, clock_in, clock_out and total_hours.
C18_ClosedRecordsAreFrozen ==
  [][(handler \in SqlHandlers) =>
       \A r \in ClosedRecords(db) :
         /\ r \in DOMAIN db'.time_records
         /\ db'.time_records[r] = db.time_records[r]]_vars

\* C18 witness: an employee with two closed records, one closed later than the
\* other: a clock-out was committed while a closed record was in the ledger.
C18_Witness ==
  /\ handler \in SqlHandlers
  /\ \E r1, r2 \in ClosedRecords(db) :
       /\ db.time_records[r1].employee_id = db.time_records[r2].employee_id
       /\ db.time_records[r1].clock_out < db.time_records[r2].clock_out


\* The step adds one open row of employee e at the end of the ledger and
\* leaves every row that was there as it was.
AppendsOpenRow(e) ==
  /\ Len(db'.time_records) = Len(db.time_records) + 1
  /\ SubSeq(db'.time_records, 1, Len(db.time_records)) = db.time_records
  /\ db'.time_records[Len(db'.time_records)].employee_id = e
  /\ db'.time_records[Len(db'.time_records)].clock_out = NULL

\* The step adds no row and changes exactly one: an open row of employee e,
\* which it closes.
ClosesOneRow(e) ==
  /\ Len(db'.time_records) = Len(db.time_records)
  /\ \E r \in DOMAIN db.time_records :
       /\ db.time_records[r].employee_id = e
       /\ db.time_records[r].clock_out = NULL
       /\ db'.time_records[r].clock_out # NULL
       /\ db'.time_records[r].employee_id = e
       /\ \A o \in DOMAIN db.time_records \ {r} : db'.time_records[o] = db.time_records[o]

\* C19: in main.go, part_003 and part_004 the committed ledger changes only in
\* the step in which a scan answers success: a clock-in appends exactly one open
\* row of the scanned employee and changes no other row, a clock-out adds no row
\* and changes exactly the one row it closes; no step removes a row.
C19_LedgerAppendOnly ==
  [][(handler \in SqlHandlers) =>
       /\ \A p \in Procs :
            Answers(p) =>
              CASE Kind(events'[Len(events')]) = "in" -> AppendsOpenRow(loc[p].id)
                [] Kind(events'[Len(events')]) = "out" -> ClosesOneRow(loc[p].id)
                [] OTHER -> db'.time_records = db.time_records
       /\ (\A p \in Procs : ~Answers(p)) => db'.time_records = db.time_records]_vars

\* C19 witness: an employee clocked in, out and in again: the ledger holds that
\* employee's closed row followed by an open one.
C19_Witness ==
  /\ handler \in {"main", "p4"}
  /\ \E e \in EmployeeIds :
       /\ KindsOf(e) = <<"in", "out", "in">>
       /\ Len(db.time_records) = 2
       /\ db.time_records[1].clock_out # NULL
       /\ db.time_records[2].clock_out = NULL


\* The step leaves employee b untouched: b's row of employees and every time
\* record of b are as before, and no record of b is added.
Untouched(b) ==
  /\ db'.employees[b] = db.employees[b]
  /\ \A r \in DOMAIN db.time_records :
       db.time_records[r].employee_id = b =>
         (r \in DOMAIN db'.time_records /\ db'.time_records[r] = db.time_records[r])
  /\ \A r \in DOMAIN db'.time_records :
       db'.time_records[r].employee_id = b =>
         (r \in DOMAIN db.time_records /\ db.time_records[r].employee_id = b)

\* C20: in main.go, part_003 and part_004 the step in which a scan of employee
\* A answers, with success or with an error, leaves every other employee
\* untouched, and a step in which no scan answers leaves every employee
\* untouched.
C20_OtherEmployeesUntouched ==
  [][(handler \in SqlHandlers) =>
       /\ \A p \in Procs :
            Answers(p) => \A b \in EmployeeIds \ {loc[p].id} : Untouched(b)
       /\ (\A p \in Procs : ~Answers(p)) => \A b \in EmployeeIds : Untouched(b)]_vars

\* C20 witness: employee 2 clocked in, then employee 1 clocked in and out;
\* employee 2 is still Present with the open record it had.
C20_Witness ==
  /\ handler \in SqlHandlers
  /\ Len(db.time_records) = 2
  /\ db.time_records[1].employee_id = 2 /\ db.time_records[1].clock_out = NULL
  /\ db.time_records[2].employee_id = 1 /\ db.time_records[2].clock_out # NULL
  /\ db.employees[2].is_present /\ ~db.employees[1].is_present

\* Every scan in flight besides p carries the badge of another employee, and no
\* scan of p's employee has been answered before.
OnlyOtherEmployees(p) ==
  /\ \A q \in Procs \ {p} : pc[q] # "idle" => loc[q].uid # loc[p].uid
  /\ \A i \in DOMAIN events : events[i].emp # loc[p].id

\* C21: in main.go and part_004, with no store fault, the first scan of an
\* enrolled employee, answering while every other scan in flight is of a
\* different employee, answers success: scans of different employees do not
\* make each other fail.
C21_OtherEmployeesDoNotFailScan ==
  [][\A p \in Procs :
       (/\ handler \in {"main", "p4"}
        /\ faults' = 0
        /\ Answers(p)
        /\ loc[p].id # 0
        /\ OnlyOtherEmployees(p))
       => Answer \notin FailureAnswers]_vars

\* The server process dies while requests are in flight and is started again
\* (main: log.Fatal(http.ListenAndServe(...)) is the whole process).  The
\* requests in flight get no answer, their connections and locks are gone, and
\* SQLite rolls the journal of an uncommitted transaction back when the file is
\* next opened: the store is the committed one.
Crash ==
  /\ \E p \in Procs : pc[p] # "idle"
  /\ pc' = [p \in Procs |-> "idle"]
  /\ loc' = [p \in Procs |-> NoLoc]
  /\ lock' = [p \in Procs |-> "none"]
  /\ txdb' = [p \in Procs |-> NoTx]
  /\ UNCHANGED <<aside, handler, db, clock, events, scans, faults, overlap, users,
                 clock_in_out>>

\* main.go and part_003, each in its own deployment, with process crashes.
InitCrash == InitOf("main") \/ InitOf("p3")
NextCrash == NextMain \/ NextP3 \/ Crash
SpecCrash == InitCrash /\ [][NextCrash]_vars

\* Request p writes its answer in this step (a crash answers nothing).
AnswersScan(p) == Answers(p) /\ Len(events') = Len(events) + 1

\* Request p's transaction applied whole to the committed store d.
WholeScan(d, p) == IF handler = "main" THEN BothWrites(d, p) ELSE P3BothWrites(d, p)

\* C22: in main.go and part_003 the step in which a scan answers success puts
\* both of its writes (ledger row and presence flag) into the committed store,
\* and no other step, a process crash included, changes the committed store:
\* a crash before the commit leaves neither write, a crash after the success
\* answer loses neither.
C22_SuccessMeansCommittedAndDurable ==
  [][(handler \in {"main", "p3"}) =>
       /\ \A p \in Procs :
            (AnswersScan(p) /\ Kind(events'[Len(events')]) # "none")
              => db' = WholeScan(db, p)
       /\ (\A p \in Procs : ~(AnswersScan(p) /\ Kind(events'[Len(events')]) # "none"))
              => db' = db]_vars

\* The steps of request p after its arrival, in main.go and in part_004.
MainStep(p) ==
  \/ MainBegin(p) \/ MainLookup(p) \/ MainInsert(p) \/ MainFlagIn(p)
  \/ MainFind(p) \/ MainClose(p) \/ MainFlagOut(p)
  \/ MainCommitStart(p) \/ MainCommit(p)

P4Step(p) ==
  \/ P4Lookup(p) \/ P4Begin(p) \/ P4Insert(p) \/ P4FlagIn(p) \/ P4Verify(p)
  \/ P4Find(p) \/ P4Close(p) \/ P4FlagOut(p)
  \/ P4CommitStart(p) \/ P4Commit(p)

\* main.go and part_004, each in its own deployment; every request is served by
\* its own goroutine (net/http), which the Go scheduler keeps running: a
\* request whose next step stays possible takes it.
InitFair == InitOf("main") \/ InitOf("p4")
NextFair == NextMain \/ NextP4
SpecFair ==
  /\ InitFair
  /\ [][NextFair]_vars
  /\ \A p \in Procs : WF_vars(MainStep(p)) /\ WF_vars(P4Step(p))

\* A request that has returned holds no transaction: no lock, no image.
NoTxLeftOpen ==
  \A p \in Procs : pc[p] = "idle" => lock[p] = "none" /\ txdb[p] = NoTx

\* C23: in main.go and part_004 every scan in flight, and so every scan that
\* has begun a transaction, eventually returns, also when several scans of one
\* badge run concurrently, and a scan that has returned has left no
\* transaction open.
C23_EveryTransactionEnds ==
  /\ [] NoTxLeftOpen
  /\ \A p \in Procs : (pc[p] # "idle") ~> (pc[p] = "idle")

\* C23 witness: two scans of one badge are inside their transactions at once,
\* one holding the write lock and the other a read lock.
C23_Witness ==
  \E p, q \in Procs :
    /\ p # q /\ loc[p].uid = loc[q].uid /\ loc[p].id # 0
    /\ lock[p] \in {"reserved", "pending"} /\ lock[q] = "shared"

\* C24: in main.go and part_003 a successful answer names the employee whose
\* badge was scanned, and its action is the event that was applied: clock-in
\* exactly when the employee was Absent in the committed store before the scan
\* took effect and the scan appended an open record, clock-out exactly when
\* the employee was Present and the scan closed a record.
C24_AnswerNamesAppliedEvent ==
  [][(handler \in {"main", "p3"}) =>
       \A p \in Procs :
         (AnswersScan(p) /\ Kind(events'[Len(events')]) # "none") =>
           LET e == loc[p].id
               k == Kind(events'[Len(events')])
           IN  /\ e \in EmployeeIds
               /\ db.employees[e].card_uid = loc[p].uid
               /\ events'[Len(events')].emp = e
               /\ (k = "in") <=> (~db.employees[e].is_present /\ AppendsOpenRow(e))
               /\ (k = "out") <=> (db.employees[e].is_present /\ ClosesOneRow(e))]_vars

\* ------------------------------------------------- main.go handleTimeRecords

TicksPerDay == 24 * TicksPerHour

\* DATE(x): the calendar day of a timestamp.
DateOf(t) == t \div TicksPerDay

\* A query parameter that is absent: r.URL.Query().Get returns "".  An absent
\* date is written NULL here, a present one as its day number.
Omitted == ""
NoDate == NULL

MaxRecords == 3
MaxDay == 2

\* The ledgers the query is asked over: up to MaxRecords records of the two
\* employees, clocked in at the start of a day, at its end or on a later day.
QueryTimes == {0, TicksPerDay - 1, TicksPerDay, MaxDay * TicksPerDay}
QueryLedgers ==
  UNION {[1..n -> {NewTimeRecord(e, t) : e \in DOMAIN EnrolledCards, t \in QueryTimes}] :
           n \in 0..MaxRecords}

\* The values of employee_id, start_date and end_date in the URL.
QueryIds == {Omitted, "1", "2", "x"}
QueryDays == {NoDate} \cup 0..MaxDay
Queries == [employee_id : QueryIds, start_date : QueryDays, end_date : QueryDays]

\* t.employee_id = ? with a text argument: the column's INTEGER affinity turns
\* a text that looks like an integer into that integer; any other text equals
\* no integer.
EqualsId(id, text) ==
  CASE text = "1" -> id = 1
    [] text = "2" -> id = 2
    [] OTHER -> FALSE

\* DATE(t.clock_in) > DATE(?): a lower bound that leaves the bound's day out.
DateAfter(t, day) == DateOf(t) > day

\* lines 560-563: DATE(t.clock_in) >= DATE(?)
DateNotBefore(t, day) == DateOf(t) >= day

\* lines 564-567: DATE(t.clock_in) <= DATE(?)
DateNotAfter(t, day) == DateOf(t) <= day

\* lines 548-567: the rows of time_records JOIN employees that pass the WHERE
\* clause built from the parameters that are not "".
Selected(d, q) ==
  {r \in DOMAIN d.time_records :
     /\ d.time_records[r].employee_id \in DOMAIN d.employees
     /\ (q.employee_id # "" => EqualsId(d.time_records[r].employee_id, q.employee_id))
     /\ (q.start_date # NoDate => DateNotBefore(d.time_records[r].clock_in, q.start_date))
     /\ (q.end_date # NoDate => DateNotAfter(d.time_records[r].clock_in, q.end_date))}

\* line 569: ORDER BY t.clock_in DESC; rows with equal clock_in come in any order.
OrderedByClockInDesc(d, S) ==
  {s \in [1..Cardinality(S) -> S] :
     /\ \A i, j \in DOMAIN s : i # j => s[i] # s[j]
     /\ \A i, j \in DOMAIN s :
          i < j => d.time_records[s[i]].clock_in >= d.time_records[s[j]].clock_in}

\* lines 538-617: GET /api/time-records.  One db.Query, then the rows are
\* encoded in the order they come.
handleTimeRecords ==
  /\ handler = "main"
  /\ \E q \in Queries :
       \E s \in OrderedByClockInDesc(db, Selected(db, q)) :
         reply' = [query |-> q, records |-> s]
  /\ UNCHANGED <<handler, db, txdb, lock, pc, loc, clock, events, scans, faults,
                 overlap, users, clock_in_out, lastScanTime, scanEntry, posts, wedge, wall,
                 call>>

\* main.go serving queries over a ledger it finds.
InitQuery ==
  \E l \in QueryLedgers :
    InitWith("main", [employees |-> InitialEmployees("main"), time_records |-> l])
NextQuery == handleTimeRecords
SpecQuery == InitQuery /\ [][NextQuery]_vars

\* Record r of the committed store passes every filter that query q supplies.
Satisfies(r, q) ==
  LET rec == db.time_records[r]
  IN  /\ q.employee_id = Omitted \/ q.employee_id = ToString(rec.employee_id)
      /\ q.start_date = NoDate \/ rec.clock_in \div TicksPerDay >= q.start_date
      /\ q.end_date = NoDate \/ rec.clock_in \div TicksPerDay <= q.end_date

\* The answer lists exactly the records that satisfy the query, each once, by
\* clock_in descending.
ExactAnswer ==
  LET s == reply.records
  IN  /\ {s[i] : i \in DOMAIN s} = {r \in DOMAIN db.time_records : Satisfies(r, reply.query)}
      /\ \A i, j \in DOMAIN s : i # j => s[i] # s[j]
      /\ \A i \in 1..(Len(s) - 1) :
           db.time_records[s[i]].clock_in >= db.time_records[s[i + 1]].clock_in

MaxEmployees == 3

\* The card_uid values an administrator submits: one that is enrolled from the
\* start, one that is not, and the empty string.
EnrolBadges == {"AB12", "EF56", ""}

\* A table without the UNIQUE constraint accepts any card_uid.
AnyCardUid(d, uid) == TRUE

\* main.go line 371 (part_003 line 75): card_uid TEXT UNIQUE NOT NULL.
UniqueCardUid(d, uid) == \A i \in DOMAIN d.employees : d.employees[i].card_uid # uid

\* INSERT INTO employees (name, card_uid) VALUES (?, ?) outside a transaction:
\* the statement needs the file to itself; the row gets the next id and the
\* defaults of the other columns (is_present FALSE).
InsertEmployee(d, uid) ==
  [d EXCEPT !.employees = Append(@, NewEmployee(uid, NULL, NULL))]

\* One enrollment request with card_uid uid: the INSERT succeeds, or fails on
\* the constraint, or gives up waiting for the locks of running scans.
Enrol(uid, okAnswer, errAnswer) ==
  /\ scans < MaxScans
  /\ scans' = scans + 1
  /\ \/ /\ \A p \in Procs : lock[p] = "none"
        /\ UniqueCardUid(db, uid)
        /\ Len(db.employees) < MaxEmployees
        /\ db' = InsertEmployee(db, uid)
        /\ events' = Append(events, [emp |-> 0, saw |-> "none", answer |-> okAnswer])
     \/ /\ \/ \E p \in Procs : lock[p] # "none"
           \/ ~UniqueCardUid(db, uid)
        /\ db' = db
        /\ events' = Append(events, [emp |-> 0, saw |-> "none", answer |-> errAnswer])
  /\ UNCHANGED <<aside, handler, txdb, lock, pc, loc, clock, faults, overlap, users,
                 clock_in_out>>

\* main.go lines 646-666: POST /api/employees; the body is not validated.
handleEmployees ==
  /\ handler = "main"
  /\ \E uid \in EnrolBadges : Enrol(uid, "employee", "Database error")

\* part_003 lines 203-228: an empty card_uid is refused before the INSERT.
addEmployeeHandler ==
  /\ handler = "p3"
  /\ \E uid \in EnrolBadges :
       IF uid = ""
         THEN /\ scans < MaxScans
              /\ scans' = scans + 1
              /\ events' = Append(events, [emp |-> 0, saw |-> "none",
                                           answer |-> "Name and Card UID are required"])
              /\ UNCHANGED <<aside, handler, db, txdb, lock, pc, loc, clock, faults,
                             overlap, users, clock_in_out>>
         ELSE Enrol(uid, "/admin/dashboard", "Error adding employee")

\* main.go and part_003, each in its own deployment, with enrollments arriving
\* among the scans.
InitEnrol == InitOf("main") \/ InitOf("p3")
NextEnrol == NextMain \/ NextP3 \/ handleEmployees \/ addEmployeeHandler
SpecEnrol == InitEnrol /\ [][NextEnrol]_vars

\* No two employees of store d have the same card_uid.
OneEmployeePerBadge(d) ==
  \A i, j \in DOMAIN d.employees :
    i # j => d.employees[i].card_uid # d.employees[j].card_uid

\* The step is the answer of an enrollment request.
EnrolAnswers == pc' = pc /\ Len(events') = Len(events) + 1

\* C26: in main.go and part_003 no two employees ever have the same badge
\* identifier; an enrollment that succeeds adds one employee whose badge no
\* employee had, Absent and with no time record, and changes nothing else; an
\* enrollment that fails, as every enrollment of an enrolled badge does,
\* leaves the store unchanged.
C26_OneEmployeePerBadge ==
  /\ [](OneEmployeePerBadge(db))
  /\ [][EnrolAnswers =>
          IF events'[Len(events')].answer \in {"employee", "/admin/dashboard"}
            THEN LET new == Len(db.employees) + 1
                 IN  /\ DOMAIN db'.employees = 1..new
                     /\ \A i \in DOMAIN db.employees :
                          /\ db'.employees[i] = db.employees[i]
                          /\ db.employees[i].card_uid # db'.employees[new].card_uid
                     /\ ~db'.employees[new].is_present
                     /\ db'.time_records = db.time_records
                     /\ \A r \in DOMAIN db'.time_records :
                          db'.time_records[r].employee_id # new
            ELSE db' = db]_vars

\* C26 witness: a new badge was enrolled, a second enrollment of the same badge
\* was refused, and the table has the one new employee.
C26_Witness ==
  /\ faults = 0
  /\ Len(db.employees) = Len(EnrolledCards) + 1
  /\ db.employees[Len(db.employees)].card_uid = "EF56"
  /\ \E i, j \in DOMAIN events :
       /\ i < j
       /\ events[i].answer \in {"employee", "/admin/dashboard"}
       /\ events[j].answer \in {"Database error", "Error adding employee"}
       /\ events[j].emp = 0 /\ events[j].saw = "none"

\* ---------------------------------------------------------- badge spelling

\* The whitespace characters a UID is presented with.
Whitespace == {" ", "\t"}

\* UID u without its whitespace, letters folded to one case.
RECURSIVE Folded(_)
Folded(u) ==
  IF u = <<>> THEN <<>>
  ELSE IF Head(u) \in Whitespace THEN Folded(Tail(u))
  ELSE <<ToUpper(Head(u))>> \o Folded(Tail(u))

\* UIDs u and v differ only in letter case or whitespace.
SameBadge(u, v) == Folded(u) = Folded(v)

\* C27: in handleRFIDScan of src/server/api.go, for a user enrolled through
\* addUserHandler, a scan whose UID differs from the enrolled UID only in
\* letter case or whitespace, and whose lookup does not fail, resolves to that
\* user.
C27_ScanResolvesEnrolledUser ==
  [][(handler = "api") =>
       \A p \in Procs :
         (pc[p] = "lookup" /\ pc'[p] # "lookup" /\ faults' = faults) =>
           \A i \in DOMAIN users :
             SameBadge(loc[p].uid, users[i].rfid_uid_original)
               => (pc'[p] = "last" /\ loc'[p].id = i)]_vars

\* ------------------------------------- src/unnamed/part_002: scanner client

MaxWall == 4
MaxText == 2

\* line 27: 1*time.Second, in ticks of the client's clock (half a second).
Second == 2

\* The badges tapped on the reader.  A keyboard-wedge reader types the UID of
\* the badge into the focused entry, one character per change of its text.
ClientBadges == {<<"A", "B">>, <<"B", "A">>}

\* What the reader types next: the rest of the badge it is typing, or a badge
\* newly tapped.
Deliveries == IF wedge = <<>> THEN ClientBadges ELSE {wedge}

\* A callback without the check of line 27.
NeverTooSoon == FALSE

\* line 27: time.Since(lastScanTime) < 1*time.Second; the zero time is more
\* than a second ago.
TooSoon == lastScanTime # ZeroTime /\ wall - lastScanTime < Second

\* The client's clock advances.
ClientTick ==
  /\ handler = "api"
  /\ wall < MaxWall
  /\ wall' = wall + 1
  /\ UNCHANGED <<handler, db, txdb, lock, pc, loc, clock, events, scans, faults,
                 overlap, users, clock_in_out, reply, lastScanTime, scanEntry, posts,
                 wedge, call>>

\* lines 26-33: scanEntry.OnChanged, called with the entry's text whenever it
\* changes.  Too soon after the last forward the callback returns and the text
\* stays.  Otherwise it notes the time, starts sendScanToServer(uid) and
\* clears the entry; clearing calls the callback again with "", which returns
\* at line 27.
OnChanged ==
  /\ handler = "api"
  /\ \E d \in Deliveries :
       LET uid == Append(scanEntry, Head(d))
       IN  /\ Len(uid) <= MaxText
           /\ wedge' = Tail(d)
           /\ IF TooSoon
                THEN /\ scanEntry' = uid
                     /\ UNCHANGED <<lastScanTime, posts>>
                ELSE /\ lastScanTime' = wall
                     /\ posts' = Append(posts, [uid |-> uid, at |-> wall])
                     /\ scanEntry' = <<>>
  /\ UNCHANGED <<handler, db, txdb, lock, pc, loc, clock, events, scans, faults,
                 overlap, users, clock_in_out, reply, wall, call>>

\* The scanner client alone, next to a server of src/server.
InitClient == InitOf("api")
NextClient == ClientTick \/ OnChanged
SpecClient == InitClient /\ [][NextClient]_vars

\* C28: any two scans the scanner client forwards are at least one second
\* apart, so the deliveries that arrive within a second of a forwarded scan
\* forward nothing and one tap causes at most one request to the server.
C28_ForwardsAtLeastOneSecondApart ==
  \A i, j \in DOMAIN posts : i < j => posts[j].at - posts[i].at >= Second

\* C28 witness: two scans were forwarded, and a delivery that came within a
\* second of the second one was dropped: its text is still in the entry.
C28_Witness ==
  /\ Len(posts) = 2
  /\ scanEntry # <<>>
  /\ wall - lastScanTime < Second

\* The users that the lookup of lines 42-44 matches for scanned UID u.
Matches(u) == LookupUser(users, normalizeRFIDInput(u)[1], normalizeRFIDInput(u)[2])

\* C29: in handleRFIDScan of src/server/api.go, for every set of users enrolled
\* through addUserHandler, every stored normalized UID is normalizeRFIDInput of
\* the stored original and no scanned UID matches two users in the lookup
\* rfid_uid_original = ? OR rfid_uid_normalized = ?.
C29_LookupUnambiguous ==
  (handler = "api") =>
    /\ \A i \in DOMAIN users :
         users[i].rfid_uid_normalized = normalizeRFIDInput(users[i].rfid_uid_original)[2]
    /\ \A u \in ApiUIDs : Cardinality(Matches(u)) <= 1

\* C29 witness: two users are enrolled and a scan has been resolved to one of
\* them through the normalized column: its UID is not the original of any user.
C29_Witness ==
  /\ Len(users) = 2
  /\ \E p \in Procs :
       /\ pc[p] = "last"
       /\ loc[p].id \in DOMAIN users
       /\ \A i \in DOMAIN users : users[i].rfid_uid_original # loc[p].uid
       /\ users[loc[p].id].rfid_uid_normalized = normalizeRFIDInput(loc[p].uid)[2]

\* User u has a clock_in_out row less than 12 hours old at time t.
HasRecentRow(u, t) ==
  \E i \in DOMAIN clock_in_out :
    clock_in_out[i].user_id = u /\ t - clock_in_out[i].timestamp < TwelveHours

\* C30: in handleRFIDScan of src/server/api.go the label a scan gets is
\* Clock-Out exactly when its user has a clock_in_out row less than 12 hours
\* old at that moment, and Clock-In otherwise; a scan that answers success
\* answers that label and appends exactly one row, of its user, to
\* clock_in_out; no other step changes the table and no step changes or
\* removes a row.
C30_LabelFollowsTwelveHourRule ==
  [][(handler = "api") =>
       /\ \A p \in Procs :
            (pc[p] = "last" /\ pc'[p] = "insert") =>
              (loc'[p].eventType = "Clock-Out" <=> HasRecentRow(loc[p].id, clock'))
       /\ \A p \in Procs :
            (AnswersScan(p) /\ Answer \in {"Clock-In", "Clock-Out"}) =>
              /\ Answer = loc[p].eventType
              /\ Len(clock_in_out') = Len(clock_in_out) + 1
              /\ SubSeq(clock_in_out', 1, Len(clock_in_out)) = clock_in_out
              /\ clock_in_out'[Len(clock_in_out')].user_id = loc[p].id
       /\ (\A p \in Procs : ~(AnswersScan(p) /\ Answer \in {"Clock-In", "Clock-Out"}))
            => clock_in_out' = clock_in_out]_vars

\* Employee i of store d is Absent and has never clocked in or out.
NeverClocked(d, i) ==
  /\ ~d.employees[i].is_present
  /\ d.employees[i].last_clock_in = NULL
  /\ d.employees[i].last_clock_out = NULL

\* C31: in part_004's processCardScan the lookup of a scan whose badge belongs
\* to a registered, Absent employee that has never clocked in or out does not
\* fail when the store does not: the scan goes on to its clock-in.
C31_NeverClockedEmployeeClocksIn ==
  [][(handler = "p4") =>
       \A p \in Procs :
         (pc[p] = "lookup" /\ pc'[p] # "lookup" /\ faults' = faults) =>
           \A i \in LookupEmployee(db, loc[p].uid) :
             NeverClocked(db, i) => (pc'[p] = "begin" /\ loc'[p].id = i)]_vars

\* C32: in main.go and part_004 every closed time record of the committed
\* store has clock_out >= clock_in and a total duration that is not negative.
C32_ClosedRecordsNotNegative ==
  (handler \in {"main", "p4"}) =>
    \A r \in ClosedRecords(db) :
      /\ db.time_records[r].clock_out >= db.time_records[r].clock_in
      /\ db.time_records[r].total_hours >= 0

\* part_004 line 222: return &employee, the struct filled by the lookup of
\* lines 100-106 and not touched since.
Returned(p) == [ID |-> loc[p].id, IsPresent |-> loc[p].present]

\* C33: in part_004 the Employee that a successful processCardScan returns has
\* the presence flag as the lookup read it, which is the negation of the
\* is_present value the scan has committed for that employee.
C33_ReturnedFlagIsPreScan ==
  [][(handler = "p4") =>
       \A p \in Procs :
         (AnswersScan(p) /\ Answer = "ok") =>
           /\ Returned(p).ID \in DOMAIN db'.employees
           /\ Returned(p).IsPresent = ~db'.employees[Returned(p).ID].is_present
           /\ events'[Len(events')].saw
                = (IF Returned(p).IsPresent THEN "present" ELSE "absent")]_vars

\* C33 witness: a clock-in and a clock-out of one employee have both returned:
\* the first returned the employee as Absent, the second as Present, and the
\* store has the employee Absent.
C33_Witness ==
  /\ handler = "p4"
  /\ \E i, j \in DOMAIN events :
       /\ i < j /\ events[i].emp = events[j].emp /\ events[i].emp # 0
       /\ events[i].answer = "ok" /\ events[i].saw = "absent"
       /\ events[j].answer = "ok" /\ events[j].saw = "present"
       /\ ~db.employees[events[i].emp].is_present

\* ------------------------------------------------------------------ C34
\* The answers given by the checks that precede every store access.
UpFrontAnswers ==
  CASE handler = "main" -> {"Method not allowed", "Invalid request"}
    [] handler = "api" -> {"Invalid request method", "Invalid request payload"}
    [] OTHER -> {}

\* The step is a request answered on arrival.
AnsweredOnArrival ==
  /\ scans' = scans + 1
  /\ pc' = pc
  /\ Len(events') = Len(events) + 1

\* C34: in main.go and src/server/api.go a scan request refused for its method,
\* its body or (api.go) its empty UID is answered on arrival with no store
\* access, no transaction and no change; api.go never takes up an empty UID;
\* main.go takes up an empty card_uid and answers it as an unregistered card
\* (or with a database error) without changing the store.
C34_RejectedUpFrontOrUnregistered ==
  [][(handler \in {"main", "api"}) =>
       /\ (AnsweredOnArrival /\ Answer \in UpFrontAnswers) =>
            /\ db' = db /\ txdb' = txdb /\ lock' = lock
            /\ users' = users /\ clock_in_out' = clock_in_out
       /\ \A p \in Procs :
            /\ (handler = "api" /\ pc[p] = "idle" /\ pc'[p] # "idle") =>
                 loc'[p].uid # <<>>
            /\ (handler = "main" /\ AnswersScan(p) /\ loc[p].uid = "") =>
                 /\ Answer \in {UnknownAnswer, "Database error"}
                 /\ db' = db]_vars

\* ------------------------------------ src/server/database.go handleRFIDScan
\* lines 49-59: the method, body and empty-UID checks.
DbRequest(p) ==
  /\ handler = "database"
  /\ Arrive(p)
  /\ \E req \in ApiRequests :
       IF req.method # "POST"
         THEN Reject(p, "Invalid request method")
         ELSE IF ~req.decodes \/ req.uid = <<>>
           THEN Reject(p, "Invalid request payload")
           ELSE Accept(p, req.uid, "lookup")
  /\ UNCHANGED <<aside, handler, db, txdb, lock, clock, faults, users, clock_in_out>>

\* lines 67-69: SELECT id, name FROM users WHERE rfid_uid_original = ?
LookupOriginal(us, originalUID) ==
  {i \in DOMAIN us : us[i].rfid_uid_original = originalUID}

\* lines 61-77: the UID as sent is looked up among the users.
DbLookup(p) ==
  /\ handler = "database" /\ pc[p] = "lookup"
  /\ \/ /\ LookupOriginal(users, loc[p].uid) = {}
        /\ Respond(p, "Unknown RFID card")
        /\ UNCHANGED faults
     \/ /\ \E i \in LookupOriginal(users, loc[p].uid) :
             loc' = [loc EXCEPT ![p].id = i]
        /\ pc' = [pc EXCEPT ![p] = "last"]
        /\ UNCHANGED <<txdb, lock, events, faults>>
     \/ Fault /\ Respond(p, "Database error")
  /\ UNCHANGED <<aside, handler, db, clock, scans, overlap, users, clock_in_out>>

\* lines 79-88: the latest row of the user decides the event kind.
DbLast(p) ==
  /\ handler = "database" /\ pc[p] = "last"
  /\ \E g \in Gaps :
       /\ clock' = clock + g
       /\ \/ /\ LastTimestamps(clock_in_out, loc[p].id) = {}
             /\ loc' = [loc EXCEPT ![p].eventType = EventType(FALSE, 0, clock')]
             /\ UNCHANGED faults
          \/ /\ \E ts \in LastTimestamps(clock_in_out, loc[p].id) :
                  loc' = [loc EXCEPT ![p].eventType = EventType(TRUE, ts, clock')]
             /\ UNCHANGED faults
          \/ /\ Fault
             /\ loc' = [loc EXCEPT ![p].eventType = EventType(FALSE, 0, clock'),
                                   ![p].failed = TRUE]
  /\ pc' = [pc EXCEPT ![p] = "insert"]
  /\ UNCHANGED <<aside, handler, db, txdb, lock, events, scans, overlap, users, clock_in_out>>

\* lines 20-27: the columns of clock_in_out declared NOT NULL, and those with
\* a default (id is the rowid, timestamp has DEFAULT CURRENT_TIMESTAMP).
ClockInOutNotNull == {"rfid_uid_original", "rfid_uid_normalized"}
ClockInOutDefaults == {"id", "timestamp"}

\* line 91: the columns the INSERT names; each is bound to a non-NULL value.
DbInsertColumns == {"rfid_uid_original", "user_id", "timestamp"}

\* A column the INSERT does not name takes its default, or NULL if it has
\* none; a NULL in a NOT NULL column fails the statement.
InsertSatisfiesNotNull(columns) ==
  ClockInOutNotNull \subseteq (columns \cup ClockInOutDefaults)

\* lines 90-101: the INSERT, then the answer "<event type>: <name>".
DbInsert(p) ==
  /\ handler = "database" /\ pc[p] = "insert"
  /\ \/ /\ IF InsertSatisfiesNotNull(DbInsertColumns)
             THEN /\ clock_in_out' = Append(clock_in_out,
                                            [user_id |-> loc[p].id, timestamp |-> clock])
                  /\ Respond(p, loc[p].eventType)
             ELSE /\ Respond(p, "Failed to record scan")
                  /\ UNCHANGED clock_in_out
        /\ UNCHANGED faults
     \/ Fault /\ Respond(p, "Failed to record scan") /\ UNCHANGED clock_in_out
  /\ UNCHANGED <<aside, handler, db, clock, scans, overlap, users>>

NextDb ==
  \/ addUserHandler
  \/ \E p \in Procs : DbRequest(p) \/ DbLookup(p) \/ DbLast(p) \/ DbInsert(p)

\* src/server/database.go alone, with users enrolled among the scans.
SpecDb == InitOf("database") /\ [][NextDb]_vars

\* ------------------------------------------------------------------ C35
\* C35: in database.go's handleRFIDScan a scan whose UID is the
\* rfid_uid_original of an enrolled user, when no store failure occurs, adds
\* exactly one clock_in_out row and answers success (Clock-In or Clock-Out).
C35_EnrolledScanRecordsOneRow ==
  [][(handler = "database") =>
       \A p \in Procs :
         (AnswersScan(p) /\ faults' = 0
            /\ \E i \in DOMAIN users : users[i].rfid_uid_original = loc[p].uid) =>
           /\ Len(clock_in_out') = Len(clock_in_out) + 1
           /\ Answer \in {"Clock-In", "Clock-Out"}]_vars

\* ------------------------------------------------------------------ C36
\* C36: when the reader types a badge into the scanner client's entry one
\* character at a time, every UID the client forwards is a complete badge
\* string; in particular no empty UID is forwarded.
C36_ForwardsCompleteBadge ==
  \A i \in DOMAIN posts : posts[i].uid \in ClientBadges

\* ------------------------------------ src/server/api.go normalizeRFIDInput
MaxUid == 3

\* The characters of a UID: letters of both cases, a space, a tab.
Characters == {"a", "b", "A", "B", " ", "\t"}
Lowercase == {"a", "b"}

\* Every UID of at most MaxUid characters.
UIDs == UNION {[1..n -> Characters] : n \in 0..MaxUid}

\* lines 18-22: one call of normalizeRFIDInput on the UID it was given.
Normalize ==
  /\ ~call.returned
  /\ call' = [call EXCEPT !.returned = TRUE,
                          !.original = normalizeRFIDInput(call.uid)[1],
                          !.normalized = normalizeRFIDInput(call.uid)[2]]
  /\ UNCHANGED <<handler, db, txdb, lock, pc, loc, clock, events, scans, faults,
                 overlap, users, clock_in_out, reply, lastScanTime, scanEntry, posts,
                 wedge, wall>>

\* normalizeRFIDInput called on any UID.
InitNormalize ==
  /\ InitStore("api", FreshStore("api"))
  /\ \E u \in UIDs : call = [NoCall EXCEPT !.uid = u]
NextNormalize == Normalize
SpecNormalize == InitNormalize /\ [][NextNormalize]_vars

=============================================================================
